---------------------------- MODULE Spec2Model ----------------------------
(***************************************************************************)
(* Model of labyrinth.py: the 7x7 tile board, the free tile, the shift     *)
(* engine (Game.shift, rotate_column) and the connectivity graph           *)
(* (get_adjacent, traverse, compute_graph), the players and one turn of    *)
(* the loop of Game.play.                                                  *)
(*                                                                         *)
(* A Direction is its flag value 0..15 (NORTH=1, EAST=2, SOUTH=4, WEST=8). *)
(* A Tile is a record [id, path, item]: id stands for the identity of the  *)
(* Python object, path and item are the dataclass fields.                  *)
(* The board is a function row -> (column -> Tile) over 0..6.              *)
(***************************************************************************)
EXTENDS Integers, Sequences, FiniteSets, TLC

VARIABLES
    board,      \* Game.board
    free,       \* Game.free
    graph,      \* Game.graph: cell -> set of cells
    calls,      \* the calls of Game.shift made so far, oldest first: the arguments
                \* and how the call ended ("ok" or the exception it raised)
    pre,        \* board and free tile as they were when the last call or turn was made
    players,    \* Game.players: a sequence of [color, items, i, j]
    winners,    \* Game.winners
    move_history,   \* Game.move_history
    turns,      \* the turns of the loop of Game.play taken so far, oldest first:
                \* who moved, the move the client returned and how the turn ended
    rot         \* a Direction under rotation: the value it started from, the
                \* << and >> applied to it so far, and its value now

vars == <<board, free, graph, calls, pre, players, winners, move_history, turns, rot>>

-----------------------------------------------------------------------------
(* Bounds of the model *)

\* Game.shift is called at most MaxCalls times in a behaviour
MaxCalls == 2
\* at most MaxInvalid of the calls are made with an even or out-of-range index or
\* with a direction that is no single compass flag
MaxInvalid == 1
\* the constructor's random.shuffle / random.randint draws come from seeds 0..MaxSeed
MaxSeed == 1
\* index arguments range over -IndexSlack .. 6 + IndexSlack
IndexSlack == 1
\* the loop of Game.play takes at most MaxTurns turns in a behaviour
MaxTurns == 2
\* at most MaxOps rotations are applied to a Direction in a row
MaxOps == 2
\* rotation amounts range over -MaxAmount .. MaxAmount
MaxAmount == 5

-----------------------------------------------------------------------------
(* Direction(Flag) *)

NORTH == 1
EAST == 2
SOUTH == 4
WEST == 8
NE == 3
NW == 9
SE == 6
SW == 12
NS == 5
EW == 10
NSE == 7
NSW == 13
\* NORTH | EAST | WEST (NEW is a reserved word of TLA+)
NEW_ == 11
SEW == 14
NSEW == 15

\* Python's & on non-negative integers, bit by bit
RECURSIVE AndBits(_, _)
AndBits(a, b) ==
    IF a = 0 \/ b = 0 THEN 0
    ELSE ((a % 2) * (b % 2)) + (2 * AndBits(a \div 2, b \div 2))

\* a & b for two flag values, tabulated once
AndOfFlags == [a \in 0 .. 15 |-> [b \in 0 .. 15 |-> AndBits(a, b)]]

BitAnd(a, b) == IF a < 16 /\ b < 16 THEN AndOfFlags[a][b] ELSE AndBits(a, b)

\* Python's | on non-negative integers, bit by bit
RECURSIVE BitOr(_, _)
BitOr(a, b) ==
    IF a = 0 THEN b
    ELSE IF b = 0 THEN a
    ELSE (IF a % 2 = 1 \/ b % 2 = 1 THEN 1 ELSE 0) + (2 * BitOr(a \div 2, b \div 2))

\* line 50 without the wrap-around: the bits pushed past WEST are dropped
lshift_by_NoWrap(self, amount) ==
    LET rotated == self * (2 ^ amount)
    IN  AndBits(rotated, 15)

\* Direction.__lshift__ after amount %= 4: amount is in 0..3
lshift_by(self, amount) ==
    LET rotated == self * (2 ^ amount)
    IN  BitOr(AndBits(rotated, 15), AndBits(rotated, 240) \div 16)

\* lshift_by for the 16 flag values, tabulated once
RotatedFlags == [d \in 0 .. 15 |-> [a \in 0 .. 3 |-> lshift_by(d, a)]]

\* Direction.__lshift__
lshift(self, amount) == RotatedFlags[self][amount % 4]

\* Direction.__rshift__
rshift(self, amount) == lshift(self, 0 - amount)

-----------------------------------------------------------------------------
(* The board *)

Size == 7
Range7 == 0 .. (Size - 1)
Cells == Range7 \X Range7

\* line 241: non-fixed tiles occur when either coordinate is odd
IsLoose(i, j) == i % 2 = 1 \/ j % 2 = 1

Tile(n, path, item) == [id |-> n, path |-> path, item |-> item]

\* the 16 tiles written into self.board, row-major over the even/even cells
FixedTiles == <<
    <<SE, "RED">>,     <<SEW, "BOOK">>,       <<SEW, "POUCH">>,   <<SW, "YELLOW">>,
    <<NSE, "MAP">>,    <<NSE, "CROWN">>,      <<SEW, "KEYS">>,    <<NSW, "SKULL">>,
    <<NSE, "RING">>,   <<NEW_, "CHEST">>,      <<NSW, "EMERALD">>, <<NSW, "SWORD">>,
    <<NE, "GREEN">>,   <<NEW_, "CANDELABRA">>, <<NEW_, "HELMET">>,  <<NW, "BLUE">> >>

NumFixed == Len(FixedTiles)

FixedIndex(i, j) == ((i \div 2) * 4) + (j \div 2) + 1

FixedTileAt(i, j) ==
    LET k == FixedIndex(i, j)
    IN  Tile(k, FixedTiles[k][1], FixedTiles[k][2])

\* loose_tiles before the shuffle
LooseTiles == <<
    <<NEW_, "BAT">>, <<NEW_, "DRAGON">>, <<NEW_, "GENIE">>,
    <<NEW_, "GHOST">>, <<NEW_, "GOBLIN">>, <<NEW_, "WITCH">>,
    <<NE, "LIZARD">>, <<NE, "MOTH">>, <<NE, "MOUSE">>,
    <<NE, "SPIDER">>, <<NE, "OWL">>, <<NE, "SCARAB">> >>
    \o [k \in 1 .. 13 |-> <<EW, "None">>]
    \o [k \in 1 .. 9 |-> <<NE, "None">>]

NumLoose == Len(LooseTiles)

\* random.shuffle(loose_tiles): the permutation drawn under a seed;
\* position p of the shuffled list holds LooseTiles[Shuffle(seed, p)]
Shuffle(seed, p) == (((p - 1) * (2 * seed + 1) + 5 * seed) % NumLoose) + 1

\* random.randint(0, 3) for the tile at position p of the shuffled list
RandRot(seed, p) == ((p * (seed + 1)) + (p \div 4)) % 4

\* the shuffled list with every tile's path rotated (lines 235-237)
ShuffledTiles(seed) ==
    [p \in 1 .. NumLoose |->
        LET k == Shuffle(seed, p)
        IN  Tile(NumFixed + k,
                 lshift(LooseTiles[k][1], RandRot(seed, p)),
                 LooseTiles[k][2])]

\* number of loose cells visited by the loops of lines 239-242 up to and with (i, j)
LooseRank(i, j) ==
    Cardinality({c \in Cells : IsLoose(c[1], c[2])
                               /\ (c[1] < i \/ (c[1] = i /\ c[2] <= j))})

\* self.board after lines 239-242: loose_tiles.pop() takes from the end
InitBoard(seed) ==
    LET tiles == ShuffledTiles(seed)
    IN  [i \in Range7 |-> [j \in Range7 |->
            IF IsLoose(i, j) THEN tiles[NumLoose + 1 - LooseRank(i, j)]
            ELSE FixedTileAt(i, j)]]

\* "self.free = loose_tiles[-1]" after the last tile has been placed: the free
\* tile is the tile put on the board last
InitFree_NotPopped(seed) == ShuffledTiles(seed)[2]

\* self.free = loose_tiles.pop(): the one tile left
InitFree(seed) == ShuffledTiles(seed)[1]

-----------------------------------------------------------------------------
(* Connectivity graph *)

NAVIGATION == << <<NORTH, -1, 0>>, <<EAST, 0, 1>>, <<SOUTH, 1, 0>>, <<WEST, 0, -1>> >>

\* line 338 without "<< 2": the neighbour is asked for the same flag, not the opposite
get_adjacent_SameFlag(b, i, j) ==
    LET tile == b[i][j]
        yields(n) ==
            LET dir == NAVIGATION[n][1]
                ai == i + NAVIGATION[n][2]
                aj == j + NAVIGATION[n][3]
            IN  IF BitAnd(tile.path, dir) # 0 /\ 0 <= ai /\ ai < 7 /\ 0 <= aj /\ aj < 7
                THEN IF BitAnd(b[ai][aj].path, dir) # 0
                     THEN << <<ai, aj>> >>
                     ELSE << >>
                ELSE << >>
    IN  yields(1) \o yields(2) \o yields(3) \o yields(4)

\* the cells get_adjacent yields, in the order it yields them
get_adjacent(b, i, j) ==
    LET tile == b[i][j]
        yields(n) ==
            LET dir == NAVIGATION[n][1]
                ai == i + NAVIGATION[n][2]
                aj == j + NAVIGATION[n][3]
            IN  IF BitAnd(tile.path, dir) # 0 /\ 0 <= ai /\ ai < 7 /\ 0 <= aj /\ aj < 7
                THEN IF BitAnd(b[ai][aj].path, lshift(dir, 2)) # 0
                     THEN << <<ai, aj>> >>
                     ELSE << >>
                ELSE << >>
    IN  yields(1) \o yields(2) \o yields(3) \o yields(4)

\* traverse without the recursive call: the cell and its adjacent cells only
traverse_Shallow(b, i, j, explored) ==
    explored \cup {<<i, j>>}
             \cup {get_adjacent(b, i, j)[k] : k \in 1 .. Len(get_adjacent(b, i, j))}

RECURSIVE traverse(_, _, _, _)
RECURSIVE traverse_loop(_, _, _)
\* the for loop of traverse over the remaining adjacent cells
traverse_loop(b, adjs, explored) ==
    IF adjs = << >> THEN explored
    ELSE LET adj == Head(adjs)
             after == IF adj \notin explored
                      THEN traverse(b, adj[1], adj[2], explored)
                      ELSE explored
         IN  traverse_loop(b, Tail(adjs), after)

\* traverse: the explored set once the call returns
traverse(b, i, j, explored) ==
    traverse_loop(b, get_adjacent(b, i, j), explored \cup {<<i, j>>})

RECURSIVE compute_graph_loop(_, _, _)
\* the loops of compute_graph from cell number n (row-major) on, with graph g so far
compute_graph_loop(b, n, g) ==
    IF n = Size * Size THEN g
    ELSE LET i == n \div Size
             j == n % Size
         IN  IF <<i, j>> \in DOMAIN g
             THEN compute_graph_loop(b, n + 1, g)
             ELSE LET explored == traverse(b, i, j, {})
                  IN  compute_graph_loop(b, n + 1,
                          [node \in explored |-> explored] @@ g)

compute_graph(b) == compute_graph_loop(b, 0, << >>)

-----------------------------------------------------------------------------
(* Game.__init__ *)

Seeds == 0 .. MaxSeed

\* list(Quest): the members in the order of their definition
Quests == <<
    "BAT", "BOOK", "CANDELABRA", "DRAGON", "EMERALD", "GHOST", "HELMET", "SPIDER",
    "GENIE", "KEYS", "LIZARD", "MAP", "CROWN", "OWL", "POUCH", "GOBLIN",
    "RING", "SCARAB", "CHEST", "SKULL", "WITCH", "SWORD", "MOUSE", "MOTH" >>

NumQuests == Len(Quests)

Colors == {"RED", "YELLOW", "BLUE", "GREEN"}

PLAYER_START ==
    [c \in Colors |->
        CASE c = "RED" -> <<0, 0>>
          [] c = "YELLOW" -> <<0, 7>>
          [] c = "GREEN" -> <<7, 0>>
          [] c = "BLUE" -> <<7, 7>>]

\* the colors of the players handed to Game(...), line 369
PlayerColors == <<"RED", "BLUE">>

NumPlayers == Len(PlayerColors)

\* random.shuffle(deck): position p of the shuffled deck holds Quests[DeckShuffle(seed, p)]
DeckShuffle(seed, p) == (((p - 1) * (6 * seed + 1) + 7 * seed) % NumQuests) + 1

Deck(seed) == [p \in 1 .. NumQuests |-> Quests[DeckShuffle(seed, p)]]

\* chunks(items, n), as the sequence of the slices it yields (n > 0)
chunks(items, n) ==
    [k \in 1 .. ((Len(items) + n - 1) \div n) |->
        SubSeq(items, ((k - 1) * n) + 1,
               IF k * n < Len(items) THEN k * n ELSE Len(items))]

\* lines 250-253: zip stops with the shorter of the players and the chunks
InitPlayers(seed) ==
    LET parts == chunks(Deck(seed), NumQuests \div NumPlayers)
        n == IF NumPlayers < Len(parts) THEN NumPlayers ELSE Len(parts)
    IN  [k \in 1 .. n |->
            [color |-> PlayerColors[k],
             items |-> Append(parts[k], PlayerColors[k]),
             i |-> PLAYER_START[PlayerColors[k]][1],
             j |-> PLAYER_START[PlayerColors[k]][2]]]

\* no Direction is under rotation
NoRot == [start |-> 0, ops |-> << >>, value |-> 0]

\* the game Game.__init__ leaves when its random draws are those of a seed
Constructed(seed) ==
    /\ board = InitBoard(seed)
    /\ free = InitFree(seed)
    /\ graph = compute_graph(InitBoard(seed))
    /\ calls = << >>
    /\ pre = [board |-> InitBoard(seed), free |-> InitFree(seed)]
    /\ players = InitPlayers(seed)
    /\ winners = << >>
    /\ move_history = << >>
    /\ turns = << >>

Init == (\E seed \in Seeds : Constructed(seed)) /\ rot = NoRot


-----------------------------------------------------------------------------
(* Game.shift *)

\* Python's list / deque indexing accepts -len .. len - 1
PyIndexOK(index) == 0 - Size <= index /\ index < Size
PyIndex(index) == IF index < 0 THEN index + Size ELSE index

\* lines 186, 196, 206: rows 1, 3 and 5 of self.board are deques, the others lists
IsDeque(i) == i \in {1, 3, 5}

\* collections.deque.rotate(n) on a deque of 7 items
deque_rotate(d, n) == [k \in Range7 |-> d[(k - n) % Size]]

\* rotate_column, for an index that row[index] accepts
rotate_column(grid, index, sign) ==
    LET c == PyIndex(index)
        col == deque_rotate([i \in Range7 |-> grid[i][c]], sign)
    IN  [i \in Range7 |-> [grid[i] EXCEPT ![c] = col[i]]]

Outcome(b, f, g, r) == [board |-> b, free |-> f, graph |-> g, result |-> r]

\* "if not index": only index 0 is refused
IsFixedIndex_ZeroOnly(index) == index = 0

\* line 259: if not index % 2
IsFixedIndex(index) == index % 2 = 0

\* line 262 as "self.free.path >>= rotation": the free tile turned the other way
RotateFree_Backwards(f, rotation) == [f EXCEPT !.path = rshift(f.path, rotation)]

\* line 262: self.free.path <<= rotation
RotateFree(f, rotation) == [f EXCEPT !.path = lshift(f.path, rotation)]

\* the else branch with the sign of the if branch
EjectAndSign_SameSign(direction) ==
    IF BitAnd(direction, NW) # 0
    THEN [eject_index |-> 0, sign |-> 1]
    ELSE [eject_index |-> 6, sign |-> 1]

\* lines 264-269: (eject_index, sign)
EjectAndSign(direction) ==
    IF BitAnd(direction, NW) # 0
    THEN [eject_index |-> 0, sign |-> 1]
    ELSE [eject_index |-> 6, sign |-> -1]

\* line 274 as "row[eject_index] = self.free": the tile pushed out is dropped
\* and the free tile stays in the holder as well
ShiftRow_NoSwap(b, f, g, index, es) ==
    IF ~PyIndexOK(index)
    THEN Outcome(b, f, g, "IndexError")
    ELSE IF ~IsDeque(PyIndex(index))
    THEN Outcome(b, f, g, "AttributeError")
    ELSE LET r == PyIndex(index)
             row == deque_rotate(b[r], es.sign)
             b2 == [b EXCEPT ![r] = [row EXCEPT ![es.eject_index] = f]]
         IN  Outcome(b2, f, g, "ok")

\* lines 272-274: the row branch
ShiftRow(b, f, g, index, es) ==
    IF ~PyIndexOK(index)
    THEN Outcome(b, f, g, "IndexError")              \* self.board[index]
    ELSE IF ~IsDeque(PyIndex(index))
    THEN Outcome(b, f, g, "AttributeError")          \* a list has no rotate
    ELSE LET r == PyIndex(index)
             row == deque_rotate(b[r], es.sign)
             b2 == [b EXCEPT ![r] = [row EXCEPT ![es.eject_index] = f]]
         IN  Outcome(b2, row[es.eject_index], g, "ok")

\* lines 276-277: the column branch
ShiftColumn(b, f, g, index, es) ==
    IF ~PyIndexOK(index)
    THEN Outcome(b, f, g, "IndexError")              \* row[index] in rotate_column
    ELSE LET c == PyIndex(index)
             b1 == rotate_column(b, index, es.sign)
             b2 == [b1 EXCEPT ![es.eject_index][c] = f]
         IN  Outcome(b2, b1[es.eject_index][c], g, "ok")

\* line 278 left out: the graph of the board before the shift is kept
Recompute_Stale(out) == out

\* line 278: self.graph = compute_graph(self.board)
Recompute(out) == [out EXCEPT !.graph = compute_graph(out.board)]

\* Game.shift: the board, free tile and graph it leaves, and how it ended
\* (an exception raised in lines 272-277 leaves line 278 unreached)
shift(b, f, g, direction, index, rotation) ==
    IF IsFixedIndex(index)
    THEN Outcome(b, f, g, "ValueError")
    ELSE LET f1 == RotateFree(f, rotation)
             es == EjectAndSign(direction)
             moved == IF BitAnd(direction, EW) # 0
                      THEN ShiftRow(b, f1, g, index, es)
                      ELSE ShiftColumn(b, f1, g, index, es)
         IN  IF moved.result = "ok" THEN Recompute(moved) ELSE moved

-----------------------------------------------------------------------------------------------------------------------------------------------------
(* Calls of Game.shift *)

Directions == 0 .. 15
Cardinals == {NORTH, EAST, SOUTH, WEST}
Rotations == 0 .. 3
Indices == (0 - IndexSlack) .. (Size - 1 + IndexSlack)
OddIndices == {i \in Range7 : i % 2 = 1}
EvenIndices == {i \in Range7 : i % 2 = 0}

\* the arguments the shift engine documents: a compass flag and an odd row / column
IsMove(direction, index) == direction \in Cardinals /\ index \in OddIndices

nCalls == Len(calls)
nInvalid == Cardinality({k \in 1 .. Len(calls) : ~IsMove(calls[k].direction, calls[k].index)})

\* no call so far has raised: nothing in labyrinth.py catches an exception, so
\* once Game.shift raises (inside Game.play, line 310) the run is over
NoneRaised == \A k \in 1 .. Len(calls) : calls[k].result = "ok"

Call(direction, index, rotation) ==
    /\ nCalls < MaxCalls
    /\ NoneRaised
    /\ ~IsMove(direction, index) => nInvalid < MaxInvalid
    /\ \E out \in {shift(board, free, graph, direction, index, rotation)} :
           /\ board' = out.board
           /\ free' = out.free
           /\ graph' = out.graph
           /\ calls' = Append(calls, [direction |-> direction, index |-> index,
                                      rotation |-> rotation, result |-> out.result])
    /\ pre' = [board |-> board, free |-> free]
    /\ UNCHANGED <<players, winners, move_history, turns, rot>>

\* a cardinal direction and an odd row / column of the board
ShiftValid ==
    \E d \in Cardinals, i \in OddIndices, r \in Rotations : Call(d, i, r)

\* an even row / column of the board
ShiftEvenIndex ==
    \E d \in Directions, i \in EvenIndices, r \in Rotations : Call(d, i, r)

\* a combined flag or the empty flag as the direction
ShiftCombined ==
    \E d \in Directions \ Cardinals, i \in OddIndices, r \in Rotations : Call(d, i, r)

\* an index that is no row / column number
ShiftOutOfRange ==
    \E d \in Directions, i \in Indices \ Range7, r \in Rotations : Call(d, i, r)

Next == ShiftValid \/ ShiftEvenIndex \/ ShiftCombined \/ ShiftOutOfRange

Spec == Init /\ [][Next]_vars

\* only the calls the shift engine documents as moves
NextValid == ShiftValid

SpecValid == Init /\ [][NextValid]_vars

-----------------------------------------------------------------------------
(* Direction under << and >> *)

Amounts == (0 - MaxAmount) .. MaxAmount

\* value = value << amount, or value = value >> amount
Rotate(op, amount) ==
    /\ Len(rot.ops) < MaxOps
    /\ rot' = [rot EXCEPT !.ops = Append(@, <<op, amount>>),
                          !.value = IF op = "<<" THEN lshift(@, amount)
                                    ELSE rshift(@, amount)]
    /\ UNCHANGED <<board, free, graph, calls, pre, players, winners, move_history, turns>>

Lshift == \E amount \in Amounts : Rotate("<<", amount)

Rshift == \E amount \in Amounts : Rotate(">>", amount)

\* any of the 16 values of the Flag, beside a constructed game that is left alone
InitDir ==
    /\ Constructed(0)
    /\ \E d \in Directions : rot = [start |-> d, ops |-> << >>, value |-> d]

NextDir == Lshift \/ Rshift

SpecDir == InitDir /\ [][NextDir]_vars

-----------------------------------------------------------------------------
(* Game.play *)

\* the fields of the game that play reads and writes
GameState(b, f, g, ps, ws, h) ==
    [board |-> b, free |-> f, graph |-> g, players |-> ps, winners |-> ws,
     move_history |-> h]

TurnOutcome(st, r) == [state |-> st, result |-> r]

\* one iteration of the loop of play for player number p (from 1) and the move
\* its client returns: the game it leaves and how it ended.
\* Player.items is a slice of the deck, a list (lines 136-138, 251): popleft at
\* line 317 raises AttributeError, so lines 318-321 are never reached.
play_turn(st, p, move) ==
    LET player == st.players[p]
    IN  IF player.items = << >>
        THEN TurnOutcome(st, "skip")                                  \* line 305
        ELSE IF st.move_history = << >>
        THEN TurnOutcome(st, "IndexError")                            \* line 307
        ELSE LET last == st.move_history[Len(st.move_history)]
             IN  IF move.direction = lshift(last.direction, 2) /\ move.index = last.index
                 THEN TurnOutcome(st, "ValueError: Can't reverse last move")
                 ELSE LET out == shift(st.board, st.free, st.graph,
                                       move.direction, move.index, move.rotation)
                          st1 == [st EXCEPT !.board = out.board, !.free = out.free,
                                            !.graph = out.graph]
                          at == <<player.i, player.j>>
                      IN  IF out.result # "ok"
                          THEN TurnOutcome(st1, out.result)           \* line 310
                          ELSE IF at \notin DOMAIN out.graph
                          THEN TurnOutcome(st1, "KeyError")           \* line 311
                          ELSE IF <<move.i, move.j>> \notin out.graph[at]
                          THEN TurnOutcome(st1, "ValueError: can't move")
                          ELSE LET st2 == [st1 EXCEPT !.players[p].i = move.i,
                                                      !.players[p].j = move.j,
                                                      !.move_history = Append(@, move)]
                               IN  IF out.board[move.i][move.j].item = player.items[1]
                                   THEN TurnOutcome(st2, "AttributeError")   \* line 317
                                   ELSE TurnOutcome(st2, "ok")

\* the cells a client names as its target in the model
TargetCells == {<<0, 0>>, <<0, 1>>, <<1, 0>>, <<1, 1>>, <<6, 6>>, <<7, 7>>}

Moves ==
    [direction : Cardinals, index : Indices, rotation : Rotations,
     i : {c[1] : c \in TargetCells}, j : {c[2] : c \in TargetCells}]

\* no turn so far has raised
Playing == \A k \in 1 .. Len(turns) : turns[k].result \in {"ok", "skip"}

\* itertools.cycle(self.players): the player of the next iteration
NextPlayer == (Len(turns) % Len(players)) + 1

Turn(move) ==
    /\ Len(turns) < MaxTurns
    /\ NoneRaised
    /\ Playing
    /\ \E out \in {play_turn(GameState(board, free, graph, players, winners,
                                         move_history), NextPlayer, move)} :
           /\ board' = out.state.board
           /\ free' = out.state.free
           /\ graph' = out.state.graph
           /\ players' = out.state.players
           /\ winners' = out.state.winners
           /\ move_history' = out.state.move_history
           /\ turns' = Append(turns, [player |-> NextPlayer, move |-> move,
                                      result |-> out.result])
    /\ pre' = [board |-> board, free |-> free]
    /\ UNCHANGED <<calls, rot>>

PlayTurn == \E move \in Moves : <<move.i, move.j>> \in TargetCells /\ Turn(move)

NextPlay == PlayTurn

\* Game.play on the game as constructed
SpecPlay == Init /\ [][NextPlay]_vars

-----------------------------------------------------------------------------
(* Vocabulary of the properties *)

LooseCells == {c \in Cells : IsLoose(c[1], c[2])}
FixedCells == Cells \ LooseCells
MovableIds == (NumFixed + 1) .. (NumFixed + NumLoose)

TileAt(b, c) == b[c[1]][c[2]]
IdsOn(b) == [c \in Cells |-> TileAt(b, c).id]

\* the call a step makes, when it makes one
Called == calls' # calls
NewCall == calls'[Len(calls')]
LastCall == calls[Len(calls)]
Untouched == board' = board /\ free' = free /\ graph' = graph

\* whether a tile is open towards a single compass flag (1, 2, 4 or 8), by arithmetic
Open(tile, flag) == (tile.path \div flag) % 2 = 1

OppositeFlag(flag) ==
    CASE flag = NORTH -> SOUTH
      [] flag = SOUTH -> NORTH
      [] flag = EAST -> WEST
      [] flag = WEST -> EAST

\* the cell next to c towards a compass flag (it may lie outside the grid)
Towards(c, flag) ==
    CASE flag = NORTH -> <<c[1] - 1, c[2]>>
      [] flag = SOUTH -> <<c[1] + 1, c[2]>>
      [] flag = EAST -> <<c[1], c[2] + 1>>
      [] flag = WEST -> <<c[1], c[2] - 1>>

\* the edge rule: both tiles open towards each other
AgreeingEdge(b, c, flag) ==
    /\ Towards(c, flag) \in Cells
    /\ Open(TileAt(b, c), flag)
    /\ Open(TileAt(b, Towards(c, flag)), OppositeFlag(flag))

EdgeNeighbours(b, c) == {Towards(c, flag) : flag \in {d \in Cardinals : AgreeingEdge(b, c, d)}}

\* the cells joined to the cells of done and frontier by chains of agreeing edges
RECURSIVE Reach(_, _, _)
Reach(b, done, frontier) ==
    IF frontier = {} THEN done
    ELSE Reach(b, done \cup frontier,
               UNION {EdgeNeighbours(b, c) : c \in frontier} \ (done \cup frontier))

ConnectedTo(b, c) == Reach(b, {}, {c})

\* the set of the cells get_adjacent yields for cell c
Yielded(b, c) ==
    UNION {{adjs[k] : k \in 1 .. Len(adjs)} : adjs \in {get_adjacent(b, c[1], c[2])}}

-----------------------------------------------------------------------------
(* C1: a call of Game.shift with index 0, 2, 4 or 6 raises ValueError, whatever
   the direction and the rotation, and leaves the board, the free tile (its
   path included) and the graph as they were. *)
C1_ShiftRejection ==
    [][(Called /\ NewCall.index \in EvenIndices)
          => (NewCall.result = "ValueError" /\ Untouched)]_vars

\* an even index refused after a shift that was carried out, with a rotation asked for
C1_Witness ==
    /\ Len(calls) = 2
    /\ calls[1].result = "ok"
    /\ calls[2].index = 4 /\ calls[2].rotation = 3 /\ calls[2].direction = NE
    /\ calls[2].result = "ValueError"
    /\ board = pre.board /\ free = pre.free

-----------------------------------------------------------------------------
(* C2: under valid shifts only (cardinal direction, index 1, 3 or 5, rotation
   0..3) every movable tile is held exactly once by the loose cells and the
   free slot together, with the occupant it was built with; and every single
   shift takes exactly one tile off the board into the free slot and puts
   exactly the previous free tile onto the board. *)
C2_Conserved ==
    /\ \A n \in MovableIds :
           Cardinality({c \in LooseCells : TileAt(board, c).id = n})
               + (IF free.id = n THEN 1 ELSE 0) = 1
    /\ \A c \in LooseCells :
           /\ TileAt(board, c).id \in MovableIds
           /\ TileAt(board, c).item = LooseTiles[TileAt(board, c).id - NumFixed][2]
    /\ free.id \in MovableIds
    /\ free.item = LooseTiles[free.id - NumFixed][2]

C2_OneInOneOut ==
    [][Called =>
          LET before == {TileAt(board, c).id : c \in LooseCells}
              after == {TileAt(board', c).id : c \in LooseCells}
          IN  /\ free'.id # free.id
              /\ before \ after = {free'.id}
              /\ after \ before = {free.id}]_vars

C2_ShiftConservation == [](C2_Conserved) /\ C2_OneInOneOut

\* two valid shifts made, and the tile the game started with as the free tile is on the board
C2_Witness ==
    /\ Len(calls) = 2
    /\ \A k \in 1 .. 2 : IsMove(calls[k].direction, calls[k].index) /\ calls[k].result = "ok"
    /\ calls[1].index # calls[2].index
    /\ \E seed \in Seeds : \E c \in LooseCells :
           TileAt(board, c).id = InitFree(seed).id /\ free.id # InitFree(seed).id

-----------------------------------------------------------------------------
(* C3: in every state reached by calls of Game.shift, accepted or rejected,
   each of the 16 cells with both coordinates even holds the tile it was built
   with, path and occupant included. *)
C3_FixedTilesUnchanged ==
    \A c \in FixedCells : TileAt(board, c) = FixedTileAt(c[1], c[2])

-----------------------------------------------------------------------------
(* C4: after construction and after every call of Game.shift, the graph has
   the 49 cells as keys and graph[(i,j)] is exactly the set of cells joined to
   (i,j) by chains of agreeing edges of the current board.  Connection by
   agreeing edges is an equivalence, so it is enough that every cell lies in
   its own entry and that every entry is the set connected to one of its
   members. *)
C4_GraphFresh ==
    /\ DOMAIN graph = Cells
    /\ \A c \in Cells : c \in graph[c]
    /\ \A K \in {graph[c] : c \in Cells} :
           K = ConnectedTo(board, CHOOSE c \in K : TRUE)

\* a shift was carried out and the connectivity of the board is not what it was before
C4_Witness ==
    /\ calls # << >>
    /\ LastCall.result = "ok"
    /\ \E c \in Cells : graph[c] # ConnectedTo(pre.board, c)

-----------------------------------------------------------------------------
(* C5: a valid shift towards EAST (SOUTH) moves every tile of the row (column)
   one place towards index 6, makes the tile that was at index 6 the free tile
   and puts the previous free tile, rotated, at index 0; WEST (NORTH) moves the
   tiles towards index 0, ejects the tile that was at index 0 and puts the
   previous free tile at index 6. *)
C5_DirectionSemantics ==
    (calls # << >> /\ IsMove(LastCall.direction, LastCall.index) /\ LastCall.result = "ok")
    => LET d == LastCall.direction
           k == LastCall.index
           old == [n \in Range7 |-> IF d \in {EAST, WEST} THEN pre.board[k][n] ELSE pre.board[n][k]]
           new == [n \in Range7 |-> IF d \in {EAST, WEST} THEN board[k][n] ELSE board[n][k]]
           entered == [pre.free EXCEPT !.path = lshift(pre.free.path, LastCall.rotation)]
       IN  IF d \in {EAST, SOUTH}
           THEN /\ \A n \in 1 .. 6 : new[n] = old[n - 1]
                /\ free = old[6]
                /\ new[0] = entered
           ELSE /\ \A n \in 0 .. 5 : new[n] = old[n + 1]
                /\ free = old[0]
                /\ new[6] = entered

-----------------------------------------------------------------------------
(* C6: for every cell and every compass direction D, get_adjacent yields the
   neighbour towards D exactly when that neighbour lies in the grid, the tile
   has D open and the neighbour tile has the opposite direction open; it yields
   nothing else; so adjacency is symmetric. *)
C6_EdgeRule ==
    \A adj \in {[i \in Range7 |-> [j \in Range7 |-> Yielded(board, <<i, j>>)]]} :
        \A c \in Cells :
            /\ \A flag \in Cardinals :
                   (Towards(c, flag) \in adj[c[1]][c[2]]) <=> AgreeingEdge(board, c, flag)
            /\ adj[c[1]][c[2]] \subseteq {Towards(c, flag) : flag \in Cardinals}
            /\ \A n \in adj[c[1]][c[2]] : c \in adj[n[1]][n[2]]

\* after a shift, a tile open to the NORTH under a tile that is not open to the
\* SOUTH: no edge from either side
C6_Witness ==
    /\ calls # << >>
    /\ LastCall.result = "ok"
    /\ \E c \in Cells :
           /\ Towards(c, NORTH) \in Cells
           /\ Open(TileAt(board, c), NORTH)
           /\ ~Open(TileAt(board, Towards(c, NORTH)), SOUTH)
           /\ Towards(c, NORTH) \notin Yielded(board, c)
           /\ c \notin Yielded(board, Towards(c, NORTH))

-----------------------------------------------------------------------------
(* C7: the graph has all 49 cells as keys, every cell is a member of its own
   entry, and whenever (k,l) is in graph[(i,j)] the two entries are equal: the
   entries partition the 49 cells. *)
C7_Partition ==
    /\ DOMAIN graph = Cells
    /\ \A c \in Cells : c \in graph[c]
    /\ \A K \in {graph[c] : c \in Cells} :
           /\ K \subseteq Cells
           /\ \A d \in K : graph[d] = K

\* after a shift: a class of several cells beside other classes
C7_Witness ==
    /\ calls # << >>
    /\ LastCall.result = "ok"
    /\ \E c \in Cells : Cardinality(graph[c]) >= 3
    /\ Cardinality({graph[c] : c \in Cells}) >= 3

-----------------------------------------------------------------------------
(* C8: a call of Game.shift with an odd index and a direction that is not
   exactly one of NORTH, EAST, SOUTH, WEST (a combined flag or the empty flag)
   raises the invalid-move error and changes neither the board, the free tile
   nor the graph. *)
C8_CombinedRejected ==
    [][(Called /\ NewCall.index \in OddIndices /\ NewCall.direction \notin Cardinals)
          => (NewCall.result = "ValueError" /\ Untouched)]_vars

-----------------------------------------------------------------------------
(* C9: every call of Game.shift, whatever the index, either completes or
   raises with the board, the free tile's path and the graph identical to
   their values before the call. *)
C9_Atomic ==
    [][Called => (NewCall.result = "ok" \/ Untouched)]_vars

-----------------------------------------------------------------------------
(* C10: a valid shift (D, index, r1) followed by the shift (opposite of D,
   same index, r2) puts every tile back on the cell it had before the two
   shifts and makes the tile that was free the free tile again, for all r1 and
   r2; only the paths of the two tiles that passed through the free slot may
   have changed. *)
C10_RoundTrip ==
    [][(/\ Called
        /\ calls # << >>
        /\ IsMove(LastCall.direction, LastCall.index) /\ LastCall.result = "ok"
        /\ NewCall.index = LastCall.index
        /\ NewCall.direction = OppositeFlag(LastCall.direction)
        /\ NewCall.result = "ok")
          => (/\ IdsOn(board') = IdsOn(pre.board)
              /\ free'.id = pre.free.id
              /\ free'.item = pre.free.item
              /\ \A c \in Cells :
                     TileAt(board', c).id \notin {pre.free.id, free.id}
                         => TileAt(board', c) = TileAt(pre.board, c)
              /\ \A c \in Cells : TileAt(board', c).item = TileAt(pre.board, c).item)]_vars

\* two opposite shifts of the same line were made, with rotations that do not cancel
C10_Witness ==
    /\ Len(calls) = 2
    /\ IsMove(calls[1].direction, calls[1].index)
    /\ calls[2].index = calls[1].index
    /\ calls[2].direction = OppositeFlag(calls[1].direction)
    /\ calls[1].result = "ok" /\ calls[2].result = "ok"
    /\ calls[1].rotation = 1 /\ calls[2].rotation = 2
    /\ IdsOn(board) # IdsOn(pre.board)

-----------------------------------------------------------------------------
(* C11: rotation is a group action on the 16 direction sets: for every d and
   all integers a, b (negative ones included) (d << a) << b = d << ((a+b) mod 4),
   d << 0 = d, d << 4 = d, d >> a = d << ((4 - a) mod 4), every result is one of
   the 16 values, and NORTH << 1 = EAST, EAST << 1 = SOUTH, SOUTH << 1 = WEST,
   WEST << 1 = NORTH. *)
C11_GroupAction ==
    LET n == Len(rot.ops)
        op(k) == rot.ops[k][1]
        amount(k) == rot.ops[k][2]
    IN  /\ rot.value \in Directions
        /\ (n = 2 /\ op(1) = "<<" /\ op(2) = "<<")
               => rot.value = lshift(rot.start, (amount(1) + amount(2)) % 4)
        /\ (n = 1 /\ op(1) = "<<" /\ amount(1) \in {0, 4}) => rot.value = rot.start
        /\ (n = 1 /\ op(1) = ">>")
               => rot.value = lshift(rot.start, (4 - amount(1)) % 4)
        /\ (n = 1 /\ op(1) = "<<" /\ amount(1) = 1)
               => /\ rot.start = NORTH => rot.value = EAST
                  /\ rot.start = EAST => rot.value = SOUTH
                  /\ rot.start = SOUTH => rot.value = WEST
                  /\ rot.start = WEST => rot.value = NORTH

\* NSE rotated by -3 and then by 2: three flags, one of them wrapping round, a
\* negative amount
C11_Witness ==
    /\ rot.start = NSE
    /\ rot.ops = << <<"<<", -3>>, <<"<<", 2>> >>
    /\ rot.value = NEW_

-----------------------------------------------------------------------------
(* C12: at construction and after any sequence of shifts, each of the 24 quest
   identifiers is the occupant of exactly one tile among the 49 board cells
   and the free tile, and each of the 4 colors is the occupant of exactly one
   tile, which sits at a corner cell of the grid. *)
Corners == {<<0, 0>>, <<0, Size - 1>>, <<Size - 1, 0>>, <<Size - 1, Size - 1>>}

Bearers(b, f, x) ==
    Cardinality({c \in Cells : TileAt(b, c).item = x}) + (IF f.item = x THEN 1 ELSE 0)

C12_OccupantUniqueness ==
    /\ \A k \in 1 .. NumQuests : Bearers(board, free, Quests[k]) = 1
    /\ \A color \in Colors :
           /\ Bearers(board, free, color) = 1
           /\ \E c \in Corners : TileAt(board, c).item = color

-----------------------------------------------------------------------------
(* C13 as claimed: construction uses the 16 fixed tiles and a movable pool of
   exactly 18 tiles, of which 17 are placed on the board and 1 becomes the
   free tile. *)
JustConstructed == calls = << >> /\ turns = << >> /\ rot = NoRot

\* the cells holding one of the 16 tiles written into self.board at lines 176-216
HoldingFixed(b) ==
    {c \in Cells : \E k \in 1 .. NumFixed :
        TileAt(b, c) = Tile(k, FixedTiles[k][1], FixedTiles[k][2])}

\* the cells holding a tile of loose_tiles
HoldingPooled(b) == {c \in Cells : TileAt(b, c).id > NumFixed}

\* the tiles of loose_tiles the game holds, on the board or as the free tile
PoolHeld(b, f) == {TileAt(b, c).id : c \in HoldingPooled(b)} \cup {f.id}

C13_PoolOf18 ==
    JustConstructed
    => /\ Cardinality(HoldingFixed(board)) = 16
       /\ Cardinality(HoldingPooled(board)) = 17
       /\ Cardinality(PoolHeld(board, free)) = 18

(* C13 as amended: construction uses the 16 fixed tiles, on the cells with both
   coordinates even, and a movable pool of exactly 34 tiles, of which 33 are
   placed on the board, on the cells with an odd coordinate, and 1 becomes the
   free tile. *)
C13_PoolOf34 ==
    JustConstructed
    => /\ Cardinality(HoldingFixed(board)) = 16
       /\ HoldingFixed(board) = {c \in Cells : c[1] % 2 = 0 /\ c[2] % 2 = 0}
       /\ Cardinality(HoldingPooled(board)) = 33
       /\ HoldingPooled(board) = Cells \ HoldingFixed(board)
       /\ free.id > NumFixed
       /\ free.id \notin {TileAt(board, c).id : c \in HoldingPooled(board)}
       /\ Cardinality(PoolHeld(board, free)) = 34

\* a constructed game whose free tile is a quest tile of the pool: the 22 blank
\* tiles and the 11 other quest tiles of the pool are on the board
C13_Witness ==
    /\ JustConstructed
    /\ free.item = "WITCH"
    /\ Cardinality({c \in Cells : TileAt(board, c).item = "None"}) = 22
    /\ Cardinality({c \in HoldingPooled(board) : TileAt(board, c).item # "None"}) = 11

-----------------------------------------------------------------------------
(* C14: a valid shift of row (column) k changes only the 7 cells of that row
   (column) and the free slot; every tile of the line moves exactly one
   position in the same sense, the tile leaving one end becomes the free tile
   and the previous free tile enters at the opposite end; the entering tile
   keeps its occupant and has its path turned by `rotation` quarter-turns, and
   the path and occupant of every other tile are unchanged. *)
\* a set of open flags turned by one quarter-turn, by arithmetic: each flag goes
\* to the next of NORTH, EAST, SOUTH, WEST, NORTH
QuarterTurn(path) == ((2 * path) % 16) + (path \div 8)

RECURSIVE QuarterTurns(_, _)
QuarterTurns(path, n) == IF n = 0 THEN path ELSE QuarterTurns(QuarterTurn(path), n - 1)

C14_ShiftFrame ==
    [][(Called /\ IsMove(NewCall.direction, NewCall.index))
          => LET k == NewCall.index
                 byRow == NewCall.direction \in {EAST, WEST}
                 OnLine(c) == IF byRow THEN c[1] = k ELSE c[2] = k
                 old == [n \in Range7 |-> IF byRow THEN board[k][n] ELSE board[n][k]]
                 new == [n \in Range7 |-> IF byRow THEN board'[k][n] ELSE board'[n][k]]
                 entering == [id |-> free.id, item |-> free.item,
                              path |-> QuarterTurns(free.path, NewCall.rotation)]
             IN  /\ NewCall.result = "ok"
                 /\ \A c \in Cells : ~OnLine(c) => TileAt(board', c) = TileAt(board, c)
                 /\ \/ /\ \A n \in 0 .. 5 : new[n + 1] = old[n]
                       /\ free' = old[6]
                       /\ new[0] = entering
                    \/ /\ \A n \in 1 .. 6 : new[n - 1] = old[n]
                       /\ free' = old[0]
                       /\ new[6] = entering]_vars

\* a second valid shift, of a column, with rotation 3, whose entering tile shows
\* another path than it had as the free tile
C14_Witness ==
    /\ Len(calls) = 2
    /\ \A n \in 1 .. 2 : IsMove(calls[n].direction, calls[n].index) /\ calls[n].result = "ok"
    /\ calls[2].direction = SOUTH /\ calls[2].rotation = 3
    /\ \E i \in {0, 6} :
           /\ board[i][calls[2].index].id = pre.free.id
           /\ board[i][calls[2].index].path # pre.free.path
           /\ board[i][calls[2].index].item = pre.free.item
    /\ free.id # pre.free.id

-----------------------------------------------------------------------------
(* Vocabulary of the properties of Game.play *)

\* the turn a step takes, when it takes one
TookTurn == turns' # turns
ThisTurn == turns'[Len(turns')]

\* the cell of player number p
PositionOf(ps, p) == <<ps[p].i, ps[p].j>>

\* what Game.shift makes of the game for the shift of a move
Shifted(move) == shift(board, free, graph, move.direction, move.index, move.rotation)

\* the move undoes the last recorded one: same index, opposite direction
Reverses(move) ==
    /\ move_history # << >>
    /\ move.index = move_history[Len(move_history)].index
    /\ move.direction = QuarterTurns(move_history[Len(move_history)].direction, 2)

\* the target of the move is reachable from cell `at` in graph g
Reachable(g, at, move) == at \in DOMAIN g /\ <<move.i, move.j>> \in g[at]

-----------------------------------------------------------------------------
(* C15: within one turn of Game.play the shift is applied first and the target
   cell (i,j) is then tested against the graph recomputed after that shift:
   the player's position changes to (i,j) only if (i,j) is in
   graph[(player.i, player.j)] of the post-shift board, and otherwise the turn
   raises and the player's position is unchanged.  (Turns refused by the
   no-reverse rule are C16's matter.) *)
C15_TurnOrdering ==
    [][(TookTurn /\ ThisTurn.result # "skip" /\ ~Reverses(ThisTurn.move))
          => LET move == ThisTurn.move
                 p == ThisTurn.player
                 at == PositionOf(players, p)
                 out == Shifted(move)
             IN  /\ board' = out.board /\ free' = out.free /\ graph' = out.graph
                 /\ PositionOf(players', p) # at
                        => /\ Reachable(graph', at, move)
                           /\ PositionOf(players', p) = <<move.i, move.j>>
                 /\ ~Reachable(graph', at, move)
                        => /\ ThisTurn.result \notin {"ok", "skip"}
                           /\ PositionOf(players', p) = at]_vars

-----------------------------------------------------------------------------
(* C16: a move whose index equals the last recorded move's index and whose
   direction is the last recorded move's direction turned by two quarter-turns
   is rejected with an error before the board, the free tile, the graph, the
   player's position or the move history is changed; every other move with a
   valid shift is not rejected by this rule (neither by its error nor by a
   failure of its look-up of the last move). *)
C16_NoReverse ==
    [][(TookTurn /\ ThisTurn.result # "skip")
          => LET move == ThisTurn.move
             IN  /\ Reverses(move)
                        => /\ ThisTurn.result \notin {"ok", "skip"}
                           /\ Untouched
                           /\ players' = players
                           /\ move_history' = move_history
                 /\ (~Reverses(move) /\ IsMove(move.direction, move.index))
                        => ThisTurn.result
                               \notin {"ValueError: Can't reverse last move", "IndexError"}]_vars

-----------------------------------------------------------------------------
(* C18: for every color the position PLAYER_START gives lies inside the 7x7
   grid and is the corner cell whose fixed tile bears that color, a player
   starts there, and in every reachable state each player's (i,j) is a key of
   the graph. *)
C18_PositionsValid ==
    /\ JustConstructed
           => /\ \A color \in Colors :
                     /\ PLAYER_START[color] \in Cells
                     /\ PLAYER_START[color] \in Corners
                     /\ TileAt(board, PLAYER_START[color]).item = color
              /\ \A p \in 1 .. Len(players) :
                     PositionOf(players, p) = PLAYER_START[players[p].color]
    /\ \A p \in 1 .. Len(players) : PositionOf(players, p) \in DOMAIN graph

-----------------------------------------------------------------------------
(* C19: on a freshly constructed game, whose move history is empty, a first
   turn whose move is a valid shift with a target reachable after that shift
   is accepted: the look-up of the last move does not fail, and the move
   becomes the first entry of move_history. *)
C19_FirstTurn ==
    [][(/\ TookTurn
        /\ turns = << >> /\ move_history = << >>
        /\ IsMove(ThisTurn.move.direction, ThisTurn.move.index)
        /\ Reachable(Shifted(ThisTurn.move).graph,
                     PositionOf(players, ThisTurn.player), ThisTurn.move))
          => (/\ ThisTurn.result # "IndexError"
              /\ move_history' = <<ThisTurn.move>>)]_vars

=============================================================================
